---- MODULE Spec2Model ----
(***************************************************************************)
(* GameSessionLogger: the session store (useSessionStore), the event store *)
(* (useEventStore) and the Dexie tables they write through.                *)
(*                                                                         *)
(* Every public operation is an async function.  A call is modelled as a   *)
(* record in `calls`.  Its Start action is the synchronous prefix up to    *)
(* the first await, with the storage request issued there; each later step *)
(* is the continuation after an await, up to the next await, with the      *)
(* request it issues.  MaxCalls slots let calls overlap; SeqSpec admits a  *)
(* new call only when no call is in flight.  DisplaySpec applies the       *)
(* duration display functions to single events, TypeSpec the session type  *)
(* functions to single values, UpgradeSpec the version 2 upgrade step to   *)
(* stores written before it, and OpenSpec db.open() to stores at any       *)
(* version.  LiveSpec, ListSpec, LoggerSpec, SelectSpec, MountSpec and     *)
(* LegacySpec run the stores under one component each: the session list,   *)
(* EventList, EventLogger, SessionSelector, App, and a page that finds     *)
(* events written before endTimestamp existed.                             *)
(***************************************************************************)
EXTENDS Integers, Sequences, FiniteSets, TLC

\* ---------------------------------------------------------------- bounds
MaxSessions == 1
MaxEvents == 2
MaxClock == 2         \* distinct instants returned by new Date()
MaxCalls == 2         \* calls that may be in flight at once
MaxStored == 3        \* sessions in a store written before version 2
MaxUpgradeRuns == 2   \* runs of the version(2) upgrade step on one store
MaxEarlier == 2       \* events a store holds from before the page was loaded
MaxSubscriptions == 2 \* calls of loadEvents on one page

\* ------------------------------------------------------- program constants
MaxNameLen == 100
MaxDescLen == 500

SESSION_TYPES == {"RPG", "Boardgame"}
EVENT_TAGS == {"Combat", "Roleplay", "Downtime", "Scoring", "Meal", "Other"}

\* ------------------------------------------------------------ value spaces
NoEnd == 0            \* endTimestamp absent (undefined)
NoId == 0             \* the empty string / no id
NoSession == [id |-> NoId]   \* activeSession.value === null
NoType == "Missing"          \* a record without a `type` property
UnknownId == MaxSessions + 1 \* an id under which no session is ever stored
EarlierSessionId == MaxSessions + 2  \* a session stored before the page was loaded

\* A string is represented by the number of surrounding whitespace
\* characters and the number of characters that survive trim().
Text(pad, len) == [pad |-> pad, len |-> len]
Length(t) == t.pad + t.len
Trim(t) == [pad |-> 0, len |-> t.len]

NameInputs == {Text(0, 0), Text(2, 0), Text(1, 100), Text(0, 101)}
DescInputs == {Text(1, 499), Text(1, 500)}
TagInputs == {"Combat", "Bogus"}

Slots == 1..MaxCalls
NullEnd == -1         \* endTimestamp: null
NoView == [fn |-> "none"]
SessionIds == 1..MaxSessions
EventIds == 1..MaxEvents
EarlierEventIds == (MaxEvents + 1)..(MaxEvents + MaxEarlier)

\* ---------------------------------------------------------------- models
\* A value of type `unknown`: what typeof gives for it, and the value written
\* out.  Str(s) is the string s.
Js(type, value) == [t |-> type, v |-> value]
Str(s) == Js("string", s)

\* typeof value === 'string' && SESSION_TYPES.includes(value)
isValidSessionType(value) == value.t = "string" /\ value.v \in SESSION_TYPES

\* the membership test dropped: every string is returned as it is
normalizeSessionTypeAnyString(value) == IF value.t = "string" THEN value ELSE Str("RPG")

normalizeSessionType(value) == IF isValidSessionType(value) THEN value ELSE Str("RPG")

\* the emptiness test applied to the untrimmed name
validateSessionNameUntrimmed(name) ==
    LET trimmed == Trim(name) IN
    IF Length(name) = 0 THEN "Session name cannot be empty"
    ELSE IF Length(trimmed) > MaxNameLen
         THEN "Session name must be 100 characters or less"
         ELSE "ok"

validateSessionName(name) ==
    LET trimmed == Trim(name) IN
    IF Length(trimmed) = 0 THEN "Session name cannot be empty"
    ELSE IF Length(trimmed) > MaxNameLen
         THEN "Session name must be 100 characters or less"
         ELSE "ok"

isValidEventTag(tag) == tag \in EVENT_TAGS

\* the length taken after trim()
validateEventDescriptionTrimmed(description) ==
    IF Length(Trim(description)) > MaxDescLen
    THEN "Description must be 500 characters or less"
    ELSE "ok"

validateEventDescription(description) ==
    IF Length(description) > MaxDescLen
    THEN "Description must be 500 characters or less"
    ELSE "ok"

VARIABLES
    dbSessions,      \* db.sessions: id -> record
    dbEvents,        \* db.events: id -> record
    sessions,        \* sessions.value (reactive collection)
    activeSession,   \* activeSession.value
    pointer,         \* localStorage 'activeSessionId'
    clock,           \* the instant new Date() returns
    nextSessionId,   \* next fresh session id
    nextEventId,     \* next fresh event id
    calls,           \* slot -> the call in flight in it
    outcome,         \* how the last call to settle ended; "none" once a call begins
    upgradeRuns,     \* times the version(2) upgrade has run on db.sessions
    view,            \* the event last rendered and what was shown for it
    verno,           \* the version the stored database is at (0: not created)
    upgraded,        \* the versions whose upgrade step the last open() ran, in order
    events,          \* events.value (reactive collection)
    subscriptions,   \* the liveQuery subscriptions loadEvents has made, in order
    isLogging,       \* EventLogger: isLogging.value
    lastClickTime    \* EventLogger: lastClickTime.value

vars == <<dbSessions, dbEvents, sessions, activeSession, pointer, clock,
          nextSessionId, nextEventId, calls, outcome, upgradeRuns, view,
          verno, upgraded, events, subscriptions, isLogging, lastClickTime>>

\* what the two stores never write
aside == <<upgradeRuns, view, verno, upgraded, events, subscriptions>>

\* the refs of the EventLogger component
logger == <<isLogging, lastClickTime>>

\* ------------------------------------------------------------ call records
\* The state a call started from; kept only while the call runs alone.
Snapshot == [alone |-> TRUE, dbSessions |-> dbSessions, dbEvents |-> dbEvents,
             activeSession |-> activeSession, pointer |-> pointer]

NoSnapshot == [alone |-> FALSE, dbSessions |-> << >>, dbEvents |-> << >>,
               activeSession |-> NoSession, pointer |-> NoId]

\* `after` holds the slots of the calls whose pending request must be answered
\* before the pending request of this call is
IdleCall == [op |-> "none", pc |-> "idle", sid |-> NoId, eid |-> NoId,
             now |-> 0, open |-> << >>, got |-> NoSession, name |-> Text(0, 0),
             tag |-> "", desc |-> Text(0, 0), pre |-> NoSnapshot, after |-> {}]

InFlight(c) == c.pc # "idle"
Quiescent == \A s \in Slots : ~InFlight(calls[s])

\* A call is placed in the lowest free slot.
FreeSlot(s) == /\ ~InFlight(calls[s])
               /\ \A r \in Slots : r < s => InFlight(calls[r])

Fresh(op) == [IdleCall EXCEPT !.op = op,
                              !.pre = IF Quiescent THEN Snapshot ELSE NoSnapshot]

\* The request a call awaits: each is one IndexedDB transaction on one table.
PendingRequest(c) ==
    [table |-> IF c.op \in {"createSession", "setActiveSession", "loadSessions"}
                  \/ (c.op = "deleteSession" /\ c.pc = "deleteSession")
               THEN "sessions" ELSE "events",
     mode |-> IF c.pc \in {"query", "get"} THEN "readonly" ELSE "readwrite"]

\* only writes queue behind one another: a read neither waits nor is waited for
ConflictsAmongWrites(a, b) ==
    /\ a.table = b.table
    /\ a.mode = "readwrite" /\ b.mode = "readwrite"

\* IndexedDB starts a transaction only when every transaction created before
\* it on the same table has finished, unless both only read
Conflicts(a, b) ==
    /\ a.table = b.table
    /\ a.mode = "readwrite" \/ b.mode = "readwrite"

\* the calls in flight, other than s, behind whose request that of c queues
Ahead(s, c) ==
    {r \in Slots \ {s} : /\ InFlight(calls[r])
                          /\ Conflicts(PendingRequest(calls[r]), PendingRequest(c))}

\* the request of the call in slot s has been answered
Answered(s, c) == IF InFlight(c) THEN [c EXCEPT !.after = @ \ {s}] ELSE c

\* the call enters slot s awaiting its first request; calls already in flight
\* no longer run alone
Begin(s, c) ==
    /\ FreeSlot(s)
    /\ calls' = [r \in Slots |->
                   IF r = s THEN [c EXCEPT !.after = Ahead(s, c)]
                   ELSE IF InFlight(calls[r]) THEN [calls[r] EXCEPT !.pre = NoSnapshot]
                   ELSE calls[r]]
    /\ outcome' = "none"

\* the synchronous prefix throws: the call settles without awaiting anything
Throw(s, c, msg) == FreeSlot(s) /\ UNCHANGED calls /\ outcome' = "error"

\* the call returns from its synchronous prefix without awaiting anything
Return(s, c) == FreeSlot(s) /\ UNCHANGED calls /\ outcome' = "ok"

\* the awaited request succeeded and the call awaits the next one
Proceed(s, c) ==
    /\ calls[s].after = {}
    /\ calls' = [r \in Slots |->
                   IF r = s THEN [c EXCEPT !.after = Ahead(s, c)]
                   ELSE Answered(s, calls[r])]
    /\ UNCHANGED outcome

\* the awaited request succeeded and the call returns
Resolve(s, c) ==
    /\ calls[s].after = {}
    /\ calls' = [r \in Slots |-> IF r = s THEN IdleCall ELSE Answered(s, calls[r])]
    /\ outcome' = "ok"

\* a request failed, or the continuation threw: the call throws
Reject(s, c, msg) ==
    /\ calls[s].after = {}
    /\ calls' = [r \in Slots |-> IF r = s THEN IdleCall ELSE Answered(s, calls[r])]
    /\ outcome' = "error"

\* ids a caller can pass: the ids handed out so far (stored, deleted or never
\* stored), except that of a session whose createSession has not returned yet
KnownSessionArgs ==
    {i \in SessionIds : /\ i < nextSessionId
                        /\ \A s \in Slots : ~(calls[s].op = "createSession"
                                               /\ calls[s].sid = i)}
KnownEventArgs == {i \in EventIds : i < nextEventId}

\* ------------------------------------------------------------ table queries
\* A request is carried out when it is issued: Dexie opens the IndexedDB
\* transaction inside the call, and IndexedDB runs the transactions on a table
\* in the order of their creation.  The step that follows is the continuation
\* after the await, which receives the result.

\* the index left out: the events of every session
EventsOfAnySession(db, sid) == DOMAIN db

\* .where('sessionId').equals(sessionId)
EventsOf(db, sid) == {e \in DOMAIN db : db[e].sessionId = sid}

\* the filter inverted: e => e.endTimestamp
OpenEventsOfInverted(db, sid) == {e \in EventsOf(db, sid) : db[e].endTimestamp # NoEnd}

\* the filter dropped: every event of the session is a target
OpenEventsOfUnfiltered(db, sid) == EventsOf(db, sid)

\* .where('sessionId').equals(sessionId).filter(e => !e.endTimestamp)
OpenEventsOf(db, sid) == {e \in EventsOf(db, sid) : db[e].endTimestamp = NoEnd}

\* index order of [sessionId+timestamp], ties broken by primary key
Before(db, a, b) ==
    \/ db[a].timestamp < db[b].timestamp
    \/ db[a].timestamp = db[b].timestamp /\ a < b

RECURSIVE InIndexOrder(_, _)
InIndexOrder(db, ids) ==
    IF ids = {} THEN << >>
    ELSE LET first == CHOOSE a \in ids : \A b \in ids \ {a} : Before(db, a, b)
         IN <<first>> \o InIndexOrder(db, ids \ {first})

\* a deletion that rewrites what it leaves: the events kept are open again
RemoveReopening(db, ids) ==
    [e \in DOMAIN db \ ids |-> [db[e] EXCEPT !.endTimestamp = NoEnd]]

\* delete(key), or Collection.delete(): the records under these keys go
Remove(db, ids) == [e \in DOMAIN db \ ids |-> db[e]]

\* an update that toggles: a closed event loses its endTimestamp
UpdateEndToggle(db, eid, end) ==
    IF eid \in DOMAIN db
    THEN [db EXCEPT ![eid].endTimestamp = IF @ = NoEnd THEN end ELSE NoEnd]
    ELSE db

\* an update whose changes carry the start instant as well
UpdateEndRestamp(db, eid, end) ==
    IF eid \in DOMAIN db
    THEN [db EXCEPT ![eid].endTimestamp = end, ![eid].timestamp = end]
    ELSE db

\* a put in place of the update: a record is stored under a key that has none
UpdateEndUpsert(db, eid, end) ==
    [k \in DOMAIN db \cup {eid} |->
        IF k \in DOMAIN db
        THEN [db[k] EXCEPT !.endTimestamp = IF k = eid THEN end ELSE @]
        ELSE [sessionId |-> NoId, tag |-> "Combat", timestamp |-> end,
              endTimestamp |-> end, description |-> << >>]]

\* Table.update(key, changes): modifies the record when it exists, else nothing
UpdateEnd(db, eid, end) ==
    IF eid \in DOMAIN db THEN [db EXCEPT ![eid].endTimestamp = end] ELSE db

Put(db, id, rec) == [k \in DOMAIN db \cup {id} |-> IF k = id THEN rec ELSE db[k]]

Exposed(db, id) == [id |-> id, name |-> db[id].name, type |-> db[id].type,
                    createdAt |-> db[id].createdAt, updatedAt |-> db[id].updatedAt]

\* db.sessions.get(id): the session, or undefined
Get(db, id) == IF id \in DOMAIN db THEN Exposed(db, id) ELSE NoSession

\* -------------------------------------------------------------------- Init
\* the module state of a page that has opened the database and rendered
\* nothing yet
PageLoaded ==
    /\ verno = 1
    /\ upgraded = << >>
    /\ events = << >>
    /\ subscriptions = << >>
    /\ isLogging = FALSE
    /\ lastClickTime = 0

Init ==
    /\ dbSessions = << >>
    /\ dbEvents = << >>
    /\ sessions = << >>
    /\ activeSession = NoSession
    /\ pointer = NoId
    /\ clock = 1
    /\ nextSessionId = 1
    /\ nextEventId = 1
    /\ calls = [s \in Slots |-> IdleCall]
    /\ outcome = "none"
    /\ upgradeRuns = 0
    /\ PageLoaded
    /\ view = NoView

\* ------------------------------------------------------------------- clock
Tick ==
    /\ clock < MaxClock
    /\ clock' = clock + 1
    /\ UNCHANGED <<dbSessions, dbEvents, sessions, activeSession, pointer,
                   nextSessionId, nextEventId, calls, outcome>>
    /\ UNCHANGED <<aside, logger>>

\* -------------------------------------------------------------- createEvent
\* createEvent calls in flight that have yet to draw their event id
PendingCreates ==
    Cardinality({s \in Slots : calls[s].op = "createEvent" /\ calls[s].pc # "add"})

\* the refs of the EventLogger are left to the caller here, in createEventAdd
\* and in storageRejects: handleTagClick writes them around its call
createEventStart(s, sessionId, tag, description) ==
    LET c == [Fresh("createEvent") EXCEPT !.sid = sessionId] IN
    /\ IF sessionId = NoId THEN Throw(s, c, "No active session")
       ELSE IF ~isValidEventTag(tag) THEN Throw(s, c, "Invalid event tag")
       ELSE IF validateEventDescription(description) # "ok"
            THEN Throw(s, c, validateEventDescription(description))
       ELSE /\ nextEventId + PendingCreates <= MaxEvents
            /\ Begin(s, [c EXCEPT
                    !.tag = tag, !.desc = description, !.now = clock,
                    !.open = InIndexOrder(dbEvents, OpenEventsOf(dbEvents, sessionId)),
                    !.pc = "query"])
    /\ UNCHANGED <<dbSessions, dbEvents, sessions, activeSession, pointer,
                   clock, nextSessionId, nextEventId>>
    /\ UNCHANGED aside

\* the boundary taken from an instant captured once, when the module loaded
AutoCloseEndAtLoad(c) == 1

\* the boundary taken from a second new Date() at the time of the update
AutoCloseEndReread(c) == clock

\* { endTimestamp: now }: the new event's own start instant
AutoCloseEnd(c) == c.now

NewEvent(c) == [sessionId |-> c.sid, tag |-> c.tag, timestamp |-> c.now,
                endTimestamp |-> NoEnd, description |-> Trim(c.desc)]

\* the body after the query: one update per open event still to close, in
\* order, then the add
IssueUpdateOrAdd(s, c, toClose) ==
    IF toClose # << >>
    THEN /\ dbEvents' = UpdateEnd(dbEvents, Head(toClose), AutoCloseEnd(c))
         /\ Proceed(s, [c EXCEPT !.open = toClose, !.pc = "update"])
         /\ UNCHANGED nextEventId
    ELSE /\ dbEvents' = Put(dbEvents, nextEventId, NewEvent(c))
         /\ nextEventId' = nextEventId + 1
         /\ Proceed(s, [c EXCEPT !.open = << >>, !.eid = nextEventId, !.pc = "add"])

\* the query has answered
createEventQuery(s) ==
    LET c == calls[s] IN
    /\ c.op = "createEvent" /\ c.pc = "query"
    /\ IssueUpdateOrAdd(s, c, c.open)
    /\ UNCHANGED <<dbSessions, sessions, activeSession, pointer,
                   clock, nextSessionId>>
    /\ UNCHANGED <<aside, logger>>

\* the loop left after its first update: the add follows at once
createEventUpdateOnce(s) ==
    LET c == calls[s] IN
    /\ c.op = "createEvent" /\ c.pc = "update"
    /\ IssueUpdateOrAdd(s, c, << >>)
    /\ UNCHANGED <<dbSessions, sessions, activeSession, pointer,
                   clock, nextSessionId>>
    /\ UNCHANGED <<aside, logger>>

\* the update of Head(c.open) has answered
createEventUpdate(s) ==
    LET c == calls[s] IN
    /\ c.op = "createEvent" /\ c.pc = "update"
    /\ IssueUpdateOrAdd(s, c, Tail(c.open))
    /\ UNCHANGED <<dbSessions, sessions, activeSession, pointer,
                   clock, nextSessionId>>
    /\ UNCHANGED <<aside, logger>>

\* the add has answered: the new event is returned
createEventAdd(s) ==
    LET c == calls[s] IN
    /\ c.op = "createEvent" /\ c.pc = "add"
    /\ Resolve(s, c)
    /\ UNCHANGED <<dbSessions, dbEvents, sessions, activeSession, pointer,
                   clock, nextSessionId, nextEventId>>
    /\ UNCHANGED aside

\* ---------------------------------------------- deleteEvent / deleteAllEvents
deleteEventStart(s, eventId) ==
    /\ Begin(s, [Fresh("deleteEvent") EXCEPT !.eid = eventId, !.pc = "delete"])
    /\ dbEvents' = Remove(dbEvents, {eventId})
    /\ UNCHANGED <<dbSessions, sessions, activeSession, pointer,
                   clock, nextSessionId, nextEventId>>
    /\ UNCHANGED <<aside, logger>>

deleteEventDelete(s) ==
    LET c == calls[s] IN
    /\ c.op = "deleteEvent" /\ c.pc = "delete"
    /\ Resolve(s, c)
    /\ UNCHANGED <<dbSessions, dbEvents, sessions, activeSession, pointer,
                   clock, nextSessionId, nextEventId>>
    /\ UNCHANGED <<aside, logger>>

\* db.events.clear(): the whole table
DeleteAllTargetsWholeTable(db, sid) == DOMAIN db

\* db.events.where('sessionId').equals(sessionId)
DeleteAllTargets(db, sid) == EventsOf(db, sid)

deleteAllEventsStart(s, sessionId) ==
    /\ Begin(s, [Fresh("deleteAllEvents") EXCEPT !.sid = sessionId, !.pc = "delete"])
    /\ dbEvents' = Remove(dbEvents, DeleteAllTargets(dbEvents, sessionId))
    /\ UNCHANGED <<dbSessions, sessions, activeSession, pointer,
                   clock, nextSessionId, nextEventId>>
    /\ UNCHANGED <<aside, logger>>

deleteAllEventsDelete(s) ==
    LET c == calls[s] IN
    /\ c.op = "deleteAllEvents" /\ c.pc = "delete"
    /\ Resolve(s, c)
    /\ UNCHANGED <<dbSessions, dbEvents, sessions, activeSession, pointer,
                   clock, nextSessionId, nextEventId>>
    /\ UNCHANGED <<aside, logger>>

\* --------------------------------------------------------------- closeEvent
closeEventStart(s, eventId) ==
    /\ Begin(s, [Fresh("closeEvent") EXCEPT !.eid = eventId, !.now = clock,
                                            !.pc = "update"])
    /\ dbEvents' = UpdateEnd(dbEvents, eventId, clock)
    /\ UNCHANGED <<dbSessions, sessions, activeSession, pointer,
                   clock, nextSessionId, nextEventId>>
    /\ UNCHANGED <<aside, logger>>

closeEventUpdate(s) ==
    LET c == calls[s] IN
    /\ c.op = "closeEvent" /\ c.pc = "update"
    /\ Resolve(s, c)
    /\ UNCHANGED <<dbSessions, dbEvents, sessions, activeSession, pointer,
                   clock, nextSessionId, nextEventId>>
    /\ UNCHANGED <<aside, logger>>

\* ------------------------------------------------------------ createSession
NewSession(c) == [name |-> Trim(c.name), type |-> NoType,
                  createdAt |-> c.now, updatedAt |-> c.now]

\* the caller passes (name, type); the function takes (name)
createSessionStart(s, name, type) ==
    LET c == [Fresh("createSession") EXCEPT !.name = name, !.now = clock] IN
    /\ IF validateSessionName(name) # "ok"
       THEN /\ Throw(s, c, validateSessionName(name))
            /\ UNCHANGED <<dbSessions, nextSessionId>>
       ELSE /\ nextSessionId <= MaxSessions
            /\ Begin(s, [c EXCEPT !.sid = nextSessionId, !.pc = "add"])
            /\ dbSessions' = Put(dbSessions, nextSessionId, NewSession(c))
            /\ nextSessionId' = nextSessionId + 1
    /\ UNCHANGED <<dbEvents, sessions, activeSession, pointer, clock, nextEventId>>
    /\ UNCHANGED <<aside, logger>>

createSessionAdd(s) ==
    LET c == calls[s] IN
    /\ c.op = "createSession" /\ c.pc = "add"
    /\ Resolve(s, c)
    /\ UNCHANGED <<dbSessions, dbEvents, sessions, activeSession, pointer,
                   clock, nextSessionId, nextEventId>>
    /\ UNCHANGED <<aside, logger>>

\* ------------------------------------------------------------ deleteSession
\* the cascade restricted to the events that are still open
CascadeTargetsOpenOnly(db, sid) == {e \in EventsOf(db, sid) : db[e].endTimestamp = NoEnd}

\* db.events.where('sessionId').equals(sessionId)
CascadeTargets(db, sid) == EventsOf(db, sid)

\* the two requests in the other order: the session record goes first
deleteSessionStartRecordFirst(s, sessionId) ==
    /\ Begin(s, [Fresh("deleteSession") EXCEPT !.sid = sessionId, !.pc = "deleteEvents"])
    /\ dbSessions' = Remove(dbSessions, {sessionId})
    /\ UNCHANGED <<dbEvents, sessions, activeSession, pointer,
                   clock, nextSessionId, nextEventId>>
    /\ UNCHANGED <<aside, logger>>

deleteSessionStart(s, sessionId) ==
    /\ Begin(s, [Fresh("deleteSession") EXCEPT !.sid = sessionId, !.pc = "deleteEvents"])
    /\ dbEvents' = Remove(dbEvents, CascadeTargets(dbEvents, sessionId))
    /\ UNCHANGED <<dbSessions, sessions, activeSession, pointer,
                   clock, nextSessionId, nextEventId>>
    /\ UNCHANGED <<aside, logger>>

\* the deletion of the events has answered
deleteSessionEvents(s) ==
    LET c == calls[s] IN
    /\ c.op = "deleteSession" /\ c.pc = "deleteEvents"
    /\ dbSessions' = Remove(dbSessions, {c.sid})
    /\ Proceed(s, [c EXCEPT !.pc = "deleteSession"])
    /\ UNCHANGED <<dbEvents, sessions, activeSession, pointer,
                   clock, nextSessionId, nextEventId>>
    /\ UNCHANGED <<aside, logger>>

\* the deletion of the session has answered
deleteSessionRecord(s) ==
    LET c == calls[s] IN
    /\ c.op = "deleteSession" /\ c.pc = "deleteSession"
    /\ IF activeSession.id = c.sid
       THEN activeSession' = NoSession /\ pointer' = NoId
       ELSE UNCHANGED <<activeSession, pointer>>
    /\ Resolve(s, c)
    /\ UNCHANGED <<dbSessions, dbEvents, sessions, clock, nextSessionId, nextEventId>>
    /\ UNCHANGED <<aside, logger>>

\* --------------------------------------------------------- setActiveSession
setActiveSessionStart(s, sessionId) ==
    /\ Begin(s, [Fresh("setActiveSession") EXCEPT
                    !.sid = sessionId, !.got = Get(dbSessions, sessionId),
                    !.pc = "get"])
    /\ UNCHANGED <<dbSessions, dbEvents, sessions, activeSession, pointer,
                   clock, nextSessionId, nextEventId>>
    /\ UNCHANGED <<aside, logger>>

\* the continuation without the existence test: the pointer is written first
setActiveSessionGetUnverified(s) ==
    LET c == calls[s] IN
    /\ c.op = "setActiveSession" /\ c.pc = "get"
    /\ pointer' = c.sid
    /\ IF c.got # NoSession
       THEN activeSession' = c.got /\ Resolve(s, c)
       ELSE UNCHANGED activeSession /\ Reject(s, c, "Session not found")
    /\ UNCHANGED <<dbSessions, dbEvents, sessions, clock, nextSessionId, nextEventId>>
    /\ UNCHANGED <<aside, logger>>

setActiveSessionGet(s) ==
    LET c == calls[s] IN
    /\ c.op = "setActiveSession" /\ c.pc = "get"
    /\ IF c.got # NoSession
       THEN /\ activeSession' = c.got
            /\ pointer' = c.sid
            /\ Resolve(s, c)
       ELSE /\ UNCHANGED <<activeSession, pointer>>
            /\ Reject(s, c, "Session not found")
    /\ UNCHANGED <<dbSessions, dbEvents, sessions, clock, nextSessionId, nextEventId>>
    /\ UNCHANGED <<aside, logger>>

\* ------------------------------------------------------------- loadSessions
loadSessionsStart(s) ==
    LET c == [Fresh("loadSessions") EXCEPT !.sid = pointer] IN
    /\ IF pointer # NoId
       THEN Begin(s, [c EXCEPT !.got = Get(dbSessions, pointer), !.pc = "get"])
       ELSE Return(s, c)
    /\ UNCHANGED <<dbSessions, dbEvents, sessions, activeSession, pointer,
                   clock, nextSessionId, nextEventId>>
    /\ UNCHANGED <<aside, logger>>

\* the continuation written like that of setActiveSession: a missing session
\* is an error
loadSessionsGetStrict(s) ==
    LET c == calls[s] IN
    /\ c.op = "loadSessions" /\ c.pc = "get"
    /\ IF c.got # NoSession
       THEN activeSession' = c.got /\ Resolve(s, c)
       ELSE UNCHANGED activeSession /\ Reject(s, c, "Session not found")
    /\ UNCHANGED <<dbSessions, dbEvents, sessions, pointer,
                   clock, nextSessionId, nextEventId>>
    /\ UNCHANGED <<aside, logger>>

loadSessionsGet(s) ==
    LET c == calls[s] IN
    /\ c.op = "loadSessions" /\ c.pc = "get"
    /\ activeSession' = IF c.got # NoSession THEN c.got ELSE activeSession
    /\ Resolve(s, c)
    /\ UNCHANGED <<dbSessions, dbEvents, sessions, pointer,
                   clock, nextSessionId, nextEventId>>
    /\ UNCHANGED <<aside, logger>>

\* --------------------------------------------------- liveQuery over sessions
\* orderBy('createdAt') without reverse()
OlderFirst(db, a, b) ==
    \/ db[a].createdAt < db[b].createdAt
    \/ db[a].createdAt = db[b].createdAt /\ a < b

\* orderBy('createdAt').reverse()
NewerFirst(db, a, b) ==
    \/ db[a].createdAt > db[b].createdAt
    \/ db[a].createdAt = db[b].createdAt /\ a > b

RECURSIVE SessionsNewestFirst(_, _)
SessionsNewestFirst(db, ids) ==
    IF ids = {} THEN << >>
    ELSE LET first == CHOOSE a \in ids : \A b \in ids \ {a} : NewerFirst(db, a, b)
         IN <<Exposed(db, first)>> \o SessionsNewestFirst(db, ids \ {first})

sessionsLiveQuery ==
    /\ sessions # SessionsNewestFirst(dbSessions, DOMAIN dbSessions)
    /\ sessions' = SessionsNewestFirst(dbSessions, DOMAIN dbSessions)
    /\ UNCHANGED <<dbSessions, dbEvents, activeSession, pointer, clock,
                   nextSessionId, nextEventId, calls, outcome>>
    /\ UNCHANGED <<aside, logger>>

\* ------------------------------------------------- a storage request rejects
\* the request the call issues when its pending one has answered
NextRequest(c) ==
    IF c.op = "createEvent" /\ c.pc = "query"
    THEN IF c.open # << >> THEN "update" ELSE "add"
    ELSE IF c.op = "createEvent" /\ c.pc = "update"
    THEN IF Tail(c.open) # << >> THEN "update" ELSE "add"
    ELSE IF c.op = "deleteSession" /\ c.pc = "deleteEvents" THEN "deleteSession"
    ELSE "none"

\* the next request of a call in flight is rejected: nothing is written and
\* the call throws
storageRejects(s) ==
    LET c == calls[s] IN
    /\ InFlight(c)
    /\ NextRequest(c) # "none"
    /\ Reject(s, c, "StorageError")
    /\ UNCHANGED <<dbSessions, dbEvents, sessions, activeSession, pointer,
                   clock, nextSessionId, nextEventId>>
    /\ UNCHANGED aside

\* the first request of a call is rejected: nothing is written and the call
\* throws
firstRequestRejects(s) ==
    /\ Throw(s, IdleCall, "StorageError")
    /\ UNCHANGED <<dbSessions, dbEvents, sessions, activeSession, pointer,
                   clock, nextSessionId, nextEventId>>
    /\ UNCHANGED <<aside, logger>>

\* ------------------------------------------------------------------ restart
\* the page is reloaded: the module state is built anew, the calls in flight
\* are gone, IndexedDB and localStorage stay
restart ==
    /\ sessions' = << >>
    /\ activeSession' = NoSession
    /\ calls' = [s \in Slots |-> IdleCall]
    /\ outcome' = "none"
    /\ UNCHANGED <<dbSessions, dbEvents, pointer, clock, nextSessionId, nextEventId>>
    /\ UNCHANGED <<aside, logger>>

\* ------------------------------------------------------------ specifications
Starts ==
    \/ \E s \in Slots, sid \in KnownSessionArgs \cup {NoId, UnknownId},
          tag \in TagInputs, d \in DescInputs :
         createEventStart(s, sid, tag, d) /\ UNCHANGED logger
    \/ \E s \in Slots, e \in KnownEventArgs : deleteEventStart(s, e)
    \/ \E s \in Slots, sid \in KnownSessionArgs \cup {UnknownId} :
         deleteAllEventsStart(s, sid)
    \/ \E s \in Slots, e \in KnownEventArgs : closeEventStart(s, e)
    \/ \E s \in Slots, n \in NameInputs, t \in SESSION_TYPES : createSessionStart(s, n, t)
    \/ \E s \in Slots, sid \in KnownSessionArgs : deleteSessionStart(s, sid)
    \/ \E s \in Slots, sid \in KnownSessionArgs \cup {UnknownId} :
         setActiveSessionStart(s, sid)
    \/ \E s \in Slots : loadSessionsStart(s)
    \/ \E s \in Slots : firstRequestRejects(s)

Steps ==
    \/ \E s \in Slots : createEventQuery(s)
    \/ \E s \in Slots : createEventUpdate(s)
    \/ \E s \in Slots : createEventAdd(s) /\ UNCHANGED logger
    \/ \E s \in Slots : deleteEventDelete(s)
    \/ \E s \in Slots : deleteAllEventsDelete(s)
    \/ \E s \in Slots : closeEventUpdate(s)
    \/ \E s \in Slots : createSessionAdd(s)
    \/ \E s \in Slots : deleteSessionEvents(s)
    \/ \E s \in Slots : deleteSessionRecord(s)
    \/ \E s \in Slots : setActiveSessionGet(s)
    \/ \E s \in Slots : loadSessionsGet(s)
    \/ \E s \in Slots : storageRejects(s) /\ UNCHANGED logger
    \/ sessionsLiveQuery
    \/ restart
    \/ Tick

Next == Starts \/ Steps

Spec == Init /\ [][Next]_vars

\* calls issued one at a time: a call starts only when none is in flight
SeqNext == (Quiescent /\ Starts) \/ Steps

SeqSpec == Init /\ [][SeqNext]_vars

\* ------------------------------------------------------- duration display
\* x % y of JavaScript: the sign of the dividend
JsRem(x, y) == IF x >= 0 THEN x % y ELSE -((-x) % y)

Shown(form, h, min) == [form |-> form, h |-> h, min |-> min]
Ongoing == Shown("Ongoing", 0, 0)
Dash == Shown("-", 0, 0)

\* the first test written totalMinutes <= 1
formatDurationInclusive(start, end) ==
    LET ms == end - start
        totalMinutes == ms \div 60000
        hours == totalMinutes \div 60
        minutes == JsRem(totalMinutes, 60)
    IN IF totalMinutes <= 1 THEN Shown("< 1 min", 0, 0)
       ELSE IF hours = 0 THEN Shown("N min", 0, totalMinutes)
       ELSE IF minutes = 0 THEN Shown("Hh", hours, 0)
       ELSE Shown("Hh Mmin", hours, minutes)

\* instants are milliseconds, as Date.parse gives them
formatDuration(start, end) ==
    LET ms == end - start
        totalMinutes == ms \div 60000
        hours == totalMinutes \div 60
        minutes == JsRem(totalMinutes, 60)
    IN IF totalMinutes < 1 THEN Shown("< 1 min", 0, 0)
       ELSE IF hours = 0 THEN Shown("N min", 0, totalMinutes)
       ELSE IF minutes = 0 THEN Shown("Hh", hours, 0)
       ELSE Shown("Hh Mmin", hours, minutes)

\* if (event.endTimestamp): a non-empty string
HasEnd(event) == event.endTimestamp \notin {NoEnd, NullEnd}

getEventDurationDisplay(event, isNewEvent) ==
    IF HasEnd(event)
    THEN [type |-> "duration",
          formatted |-> formatDuration(event.timestamp, event.endTimestamp)]
    ELSE IF isNewEvent THEN [type |-> "ongoing"]
    ELSE [type |-> "unknown"]

isEventOpen(event) == event.endTimestamp = NoEnd \/ event.endTimestamp = NullEnd

\* the Duration cell of the markdown table
ExportDuration(event) ==
    IF HasEnd(event) THEN formatDuration(event.timestamp, event.endTimestamp)
    ELSE IF isEventOpen(event) THEN Ongoing
    ELSE Dash

\* the badge of the event card: v-if="isOpen", v-else-if="durationDisplay", v-else
CardBadge(event) ==
    IF isEventOpen(event) THEN Ongoing
    ELSE IF HasEnd(event) THEN formatDuration(event.timestamp, event.endTimestamp)
    ELSE Dash

StartInputs == {1000, 61000}
LengthInputs == {0, 59999, 60000, 119999, 3599999, 3600000, 3659999, 3660000,
                 7200000, 90061000}

\* A stored event as the display code receives it.  `legacy` tells whether the
\* record was written before the endTimestamp field existed: such a record
\* carries no endTimestamp (or null), and nothing in the record says so.
DisplayInputs ==
    {[timestamp |-> t, endTimestamp |-> e, legacy |-> l] :
        t \in StartInputs, e \in {NoEnd, NullEnd}, l \in BOOLEAN}
    \cup {[timestamp |-> t, endTimestamp |-> t + d, legacy |-> FALSE] :
             t \in StartInputs, d \in LengthInputs}

Rendered(event, fn, out) == [fn |-> fn, event |-> event, out |-> out]

callIsEventOpen ==
    /\ view' = Rendered(view.event, "isEventOpen", isEventOpen(view.event))
    /\ UNCHANGED <<dbSessions, dbEvents, sessions, activeSession, pointer, clock,
                   nextSessionId, nextEventId, calls, outcome, upgradeRuns,
                   verno, upgraded, events, subscriptions, logger>>

callGetEventDurationDisplay(isNewEvent) ==
    /\ view' = Rendered(view.event, "getEventDurationDisplay",
                        getEventDurationDisplay(view.event, isNewEvent))
    /\ UNCHANGED <<dbSessions, dbEvents, sessions, activeSession, pointer, clock,
                   nextSessionId, nextEventId, calls, outcome, upgradeRuns,
                   verno, upgraded, events, subscriptions, logger>>

renderEventCard ==
    /\ view' = Rendered(view.event, "EventCard", CardBadge(view.event))
    /\ UNCHANGED <<dbSessions, dbEvents, sessions, activeSession, pointer, clock,
                   nextSessionId, nextEventId, calls, outcome, upgradeRuns,
                   verno, upgraded, events, subscriptions, logger>>

formatEventsAsMarkdownTable ==
    /\ view' = Rendered(view.event, "formatEventsAsMarkdownTable",
                        ExportDuration(view.event))
    /\ UNCHANGED <<dbSessions, dbEvents, sessions, activeSession, pointer, clock,
                   nextSessionId, nextEventId, calls, outcome, upgradeRuns,
                   verno, upgraded, events, subscriptions, logger>>

DisplayInit ==
    /\ dbSessions = << >> /\ dbEvents = << >> /\ sessions = << >>
    /\ activeSession = NoSession /\ pointer = NoId /\ clock = 1
    /\ nextSessionId = 1 /\ nextEventId = 1
    /\ calls = [s \in Slots |-> IdleCall] /\ outcome = "none"
    /\ upgradeRuns = 0
    /\ PageLoaded
    /\ \E event \in DisplayInputs : view = Rendered(event, "none", FALSE)

DisplayNext ==
    \/ callIsEventOpen
    \/ \E isNewEvent \in BOOLEAN : callGetEventDurationDisplay(isNewEvent)
    \/ renderEventCard
    \/ formatEventsAsMarkdownTable

DisplaySpec == DisplayInit /\ [][DisplayNext]_vars

\* ------------------------------------------------- version(2) upgrade step
\* the callback written as session.type = session.type ? 'Boardgame' : 'RPG'
ModifyV2Retyping(session) ==
    [session EXCEPT !.type = IF @ \in {NoType, ""} THEN "RPG" ELSE "Boardgame"]

\* session => { if (!session.type) session.type = 'RPG' }
ModifyV2(session) ==
    IF session.type \in {NoType, ""} THEN [session EXCEPT !.type = "RPG"] ELSE session

\* tx.table('sessions').toCollection().modify(...)
upgradeV2 ==
    /\ upgradeRuns < MaxUpgradeRuns
    /\ dbSessions' = [id \in DOMAIN dbSessions |-> ModifyV2(dbSessions[id])]
    /\ upgradeRuns' = upgradeRuns + 1
    /\ UNCHANGED <<dbEvents, sessions, activeSession, pointer, clock,
                   nextSessionId, nextEventId, calls, outcome, view,
                   verno, upgraded, events, subscriptions, logger>>

\* what a session record of a store written before version 2 may hold as type
StoredTypes == {NoType, "", "RPG", "Boardgame", "Campaign"}

StoredSession(type) == [name |-> Text(0, 4), type |-> type,
                        createdAt |-> 1, updatedAt |-> 1]

UpgradeInit ==
    /\ \E ids \in SUBSET (1..MaxStored) :
         \E types \in [ids -> StoredTypes] :
            dbSessions = [id \in ids |-> StoredSession(types[id])]
    /\ dbEvents = << >> /\ sessions = << >>
    /\ activeSession = NoSession /\ pointer = NoId /\ clock = 1
    /\ nextSessionId = 1 /\ nextEventId = 1
    /\ calls = [s \in Slots |-> IdleCall] /\ outcome = "none"
    /\ upgradeRuns = 0
    /\ PageLoaded
    /\ view = NoView

UpgradeNext == upgradeV2

UpgradeSpec == UpgradeInit /\ [][UpgradeNext]_vars

\* ------------------------------------------------------- opening the database
\* the versions the GameSessionDatabase constructor declares
DeclaredVersions == {1}

\* the declared versions that carry an upgrade() callback
UpgradeSteps == {}

\* the version the page runs: the highest one declared
CurrentVersion == CHOOSE v \in DeclaredVersions : \A w \in DeclaredVersions : w <= v

\* the versions a stored database may be at: 0 when it does not exist yet,
\* up to 3 when another build of the application wrote it
StoredVersions == 0..3

\* the declared versions above `from`, in increasing order
RECURSIVE VersionsAbove(_)
VersionsAbove(from) ==
    LET above == {v \in DeclaredVersions : v > from} IN
    IF above = {} THEN << >>
    ELSE LET next == CHOOSE v \in above : \A w \in above : v <= w
         IN <<next>> \o VersionsAbove(next)

\* the sessions table after the upgrade steps of the versions in `path`
RECURSIVE Upgraded(_, _)
Upgraded(db, path) ==
    IF path = << >> THEN db
    ELSE Upgraded(IF Head(path) \in UpgradeSteps
                  THEN [id \in DOMAIN db |-> ModifyV2(db[id])]
                  ELSE db,
                  Tail(path))

\* db.open(), run by the first table access.  A database that does not exist
\* is created at the current version; a database at a lower version is taken
\* through the declared versions above it; a database at a higher version
\* is left as it is, whether open() rejects with VersionError or not.
open ==
    /\ outcome = "none"
    /\ IF verno = 0
       THEN /\ verno' = CurrentVersion
            /\ upgraded' = << >>
            /\ outcome' = "ok"
            /\ UNCHANGED dbSessions
       ELSE IF verno <= CurrentVersion
       THEN /\ verno' = CurrentVersion
            /\ upgraded' = VersionsAbove(verno)
            /\ dbSessions' = Upgraded(dbSessions, VersionsAbove(verno))
            /\ outcome' = "ok"
       ELSE /\ outcome' \in {"ok", "error"}
            /\ UNCHANGED <<verno, upgraded, dbSessions>>
    /\ UNCHANGED <<dbEvents, sessions, activeSession, pointer, clock,
                   nextSessionId, nextEventId, calls, upgradeRuns, view,
                   events, subscriptions, logger>>

\* the page is loaded again
reload ==
    /\ outcome # "none"
    /\ outcome' = "none"
    /\ upgraded' = << >>
    /\ UNCHANGED <<dbSessions, dbEvents, sessions, activeSession, pointer, clock,
                   nextSessionId, nextEventId, calls, upgradeRuns, view,
                   verno, events, subscriptions, logger>>

\* an event record written before the page was loaded; a record written
\* before the endTimestamp field existed has none
EarlierEvent(end) == [sessionId |-> 1, tag |-> "Combat", timestamp |-> 1,
                      endTimestamp |-> end, description |-> Text(0, 0)]

\* the stores a page may find: none, or one written at some version
OpenInit ==
    /\ verno \in StoredVersions
    /\ \E ids \in SUBSET (1..MaxStored) :
         \E types \in [ids -> StoredTypes] :
            /\ verno = 0 => ids = {}
            /\ dbSessions = [id \in ids |-> StoredSession(types[id])]
    /\ \E ids \in SUBSET EarlierEventIds :
            /\ verno = 0 => ids = {}
            /\ dbEvents = [id \in ids |-> EarlierEvent(NoEnd)]
    /\ sessions = << >>
    /\ activeSession = NoSession /\ pointer = NoId /\ clock = 1
    /\ nextSessionId = 1 /\ nextEventId = 1
    /\ calls = [s \in Slots |-> IdleCall] /\ outcome = "none"
    /\ upgradeRuns = 0
    /\ view = NoView
    /\ upgraded = << >>
    /\ events = << >> /\ subscriptions = << >>
    /\ isLogging = FALSE /\ lastClickTime = 0

OpenNext == open \/ reload

OpenSpec == OpenInit /\ [][OpenNext]_vars

\* ------------------------------------------ the session list kept up to date
\* a session record written before the page was loaded
EarlierSession == [name |-> Text(0, 4), type |-> NoType,
                   createdAt |-> 1, updatedAt |-> 1]

\* the page finds an empty store, or one session in it
LiveInit ==
    /\ dbSessions \in {<< >>, [id \in {EarlierSessionId} |-> EarlierSession]}
    /\ dbEvents = << >>
    /\ sessions = << >>
    /\ activeSession = NoSession
    /\ pointer = NoId
    /\ clock = 1
    /\ nextSessionId = 1
    /\ nextEventId = 1
    /\ calls = [s \in Slots |-> IdleCall]
    /\ outcome = "none"
    /\ upgradeRuns = 0
    /\ view = NoView
    /\ PageLoaded

\* the session list of SessionSelector: sessions are created and deleted, one
\* call at a time, and nothing reads the table but the liveQuery
LiveNext ==
    \/ /\ Quiescent
       /\ \/ \E s \in Slots, n \in NameInputs, t \in SESSION_TYPES :
               createSessionStart(s, n, t)
          \/ \E s \in Slots, sid \in KnownSessionArgs \cup DOMAIN dbSessions :
               deleteSessionStart(s, sid)
    \/ \E s \in Slots : createSessionAdd(s)
    \/ \E s \in Slots : deleteSessionEvents(s)
    \/ \E s \in Slots : deleteSessionRecord(s)
    \/ \E s \in Slots : storageRejects(s) /\ UNCHANGED logger
    \/ sessionsLiveQuery
    \/ restart
    \/ Tick

\* the subscription made in useSessionStore() is never cancelled: a result
\* that differs from the list is delivered
LiveSpec == LiveInit /\ [][LiveNext]_vars /\ WF_vars(sessionsLiveQuery)

\* --------------------------------------------------- session type functions
TypeInputs ==
    {Str(s) : s \in {"RPG", "Boardgame", "", " ", "rpg", "Rpg", "RPG ", " RPG",
                      "boardgame", "BOARDGAME", "Board game", "Campaign",
                      "undefined", "null", "0", "RPG,Boardgame"}}
    \cup {Js("undefined", "undefined")}
    \cup {Js("object", v) : v \in {"null", "{}", "['RPG']", "new String('RPG')",
                                   "{ type: 'RPG' }"}}
    \cup {Js("number", v) : v \in {"0", "1", "-1", "NaN"}}
    \cup {Js("boolean", v) : v \in {"true", "false"}}
    \cup {Js("symbol", "Symbol('RPG')"), Js("bigint", "0n"),
          Js("function", "() => 'RPG'")}

Applied(value, fn, out) == [fn |-> fn, arg |-> value, out |-> out]

\* `once` is what the first application returned, `out` what the second did
AppliedAgain(value, once, out) ==
    [fn |-> "normalizeSessionType again", arg |-> value, once |-> once, out |-> out]

callIsValidSessionType ==
    /\ view.fn = "none"
    /\ view' = Applied(view.arg, "isValidSessionType", isValidSessionType(view.arg))
    /\ UNCHANGED <<dbSessions, dbEvents, sessions, activeSession, pointer, clock,
                   nextSessionId, nextEventId, calls, outcome, upgradeRuns,
                   verno, upgraded, events, subscriptions, logger>>

callNormalizeSessionType ==
    /\ view.fn \in {"none", "isValidSessionType"}
    /\ view' = Applied(view.arg, "normalizeSessionType", normalizeSessionType(view.arg))
    /\ UNCHANGED <<dbSessions, dbEvents, sessions, activeSession, pointer, clock,
                   nextSessionId, nextEventId, calls, outcome, upgradeRuns,
                   verno, upgraded, events, subscriptions, logger>>

\* normalizeSessionType applied to what it returned
callNormalizeSessionTypeAgain ==
    /\ view.fn = "normalizeSessionType"
    /\ view' = AppliedAgain(view.arg, view.out, normalizeSessionType(view.out))
    /\ UNCHANGED <<dbSessions, dbEvents, sessions, activeSession, pointer, clock,
                   nextSessionId, nextEventId, calls, outcome, upgradeRuns,
                   verno, upgraded, events, subscriptions, logger>>

TypeInit ==
    /\ dbSessions = << >> /\ dbEvents = << >> /\ sessions = << >>
    /\ activeSession = NoSession /\ pointer = NoId /\ clock = 1
    /\ nextSessionId = 1 /\ nextEventId = 1
    /\ calls = [s \in Slots |-> IdleCall] /\ outcome = "none"
    /\ upgradeRuns = 0
    /\ PageLoaded
    /\ \E value \in TypeInputs : view = Applied(value, "none", FALSE)

TypeNext ==
    \/ callIsValidSessionType
    \/ callNormalizeSessionType
    \/ callNormalizeSessionTypeAgain

TypeSpec == TypeInit /\ [][TypeNext]_vars

\* ------------------------------------------------- the event list of a page
ExposedEvent(db, id) ==
    [id |-> id, sessionId |-> db[id].sessionId, tag |-> db[id].tag,
     timestamp |-> db[id].timestamp, endTimestamp |-> db[id].endTimestamp,
     description |-> db[id].description]

\* .where('sessionId').equals(sessionId).reverse().sortBy('timestamp')
RECURSIVE EventsNewestFirst(_, _)
EventsNewestFirst(db, ids) ==
    IF ids = {} THEN << >>
    ELSE LET last == CHOOSE a \in ids : \A b \in ids \ {a} : Before(db, b, a)
         IN <<ExposedEvent(db, last)>> \o EventsNewestFirst(db, ids \ {last})

QueryEvents(sid) == EventsNewestFirst(dbEvents, EventsOf(dbEvents, sid))

\* liveQuery(...).subscribe(...): the subscription is made and the value it
\* returns is dropped, so nothing can cancel it
Subscription(sid) == [sid |-> sid, delivered |-> FALSE, result |-> << >>]

loadEvents(sessionId) ==
    /\ Len(subscriptions) < MaxSubscriptions
    /\ subscriptions' = Append(subscriptions, Subscription(sessionId))
    /\ UNCHANGED <<dbSessions, dbEvents, sessions, activeSession, pointer, clock,
                   nextSessionId, nextEventId, calls, outcome, upgradeRuns, view,
                   verno, upgraded, events, logger>>

\* subscription i delivers: its first result, in the order the subscriptions
\* were made, or a new result after a write has changed what its query gives
eventsLiveQuery(i) ==
    LET sub == subscriptions[i] IN
    /\ IF sub.delivered THEN sub.result # QueryEvents(sub.sid)
       ELSE \A j \in 1..(i - 1) : subscriptions[j].delivered
    /\ events' = QueryEvents(sub.sid)
    /\ subscriptions' = [subscriptions EXCEPT
                            ![i] = [sub EXCEPT !.delivered = TRUE,
                                               !.result = QueryEvents(sub.sid)]]
    /\ UNCHANGED <<dbSessions, dbEvents, sessions, activeSession, pointer, clock,
                   nextSessionId, nextEventId, calls, outcome, upgradeRuns, view,
                   verno, upgraded, logger>>

\* the sessions the page switches between
ListedSessions == {1, EarlierSessionId}

ListInit ==
    /\ dbSessions = [id \in ListedSessions |-> EarlierSession]
    /\ dbEvents = << >>
    /\ sessions = << >>
    /\ activeSession = NoSession
    /\ pointer = NoId
    /\ clock = 1
    /\ nextSessionId = 2
    /\ nextEventId = 1
    /\ calls = [s \in Slots |-> IdleCall]
    /\ outcome = "none"
    /\ upgradeRuns = 0
    /\ view = NoView
    /\ PageLoaded

\* EventList mounts and follows props.sessionId while events are logged and
\* deleted, one call at a time
ListNext ==
    \/ \E sid \in ListedSessions : loadEvents(sid)
    \/ \E i \in 1..Len(subscriptions) : eventsLiveQuery(i)
    \/ /\ Quiescent
       /\ \/ \E s \in Slots, sid \in ListedSessions :
               createEventStart(s, sid, "Combat", Text(0, 0)) /\ UNCHANGED logger
          \/ \E s \in Slots, sid \in ListedSessions : deleteAllEventsStart(s, sid)
          \/ \E s \in Slots, sid \in DOMAIN dbSessions : deleteSessionStart(s, sid)
    \/ \E s \in Slots : createEventQuery(s)
    \/ \E s \in Slots : createEventUpdate(s)
    \/ \E s \in Slots : createEventAdd(s) /\ UNCHANGED logger
    \/ \E s \in Slots : deleteAllEventsDelete(s)
    \/ \E s \in Slots : deleteSessionEvents(s)
    \/ \E s \in Slots : deleteSessionRecord(s)
    \/ Tick

ListSpec == ListInit /\ [][ListNext]_vars

\* ------------------------------------------------------------- EventLogger
DEBOUNCE_MS == 300

\* Date.now(): the instants of the clock are taken 300 ms apart
MsPerTick == 300
DateNow == 1000 + clock * MsPerTick

\* handleTagClick up to its await: a click within the debounce interval
\* returns at once; otherwise createEvent is called with the session of the
\* component and the text of the description field (at most 500 characters,
\* by the maxlength of the field)
handleTagClick(s, tag) ==
    /\ DateNow - lastClickTime >= DEBOUNCE_MS
    /\ lastClickTime' = DateNow
    /\ isLogging' = TRUE
    /\ \E d \in DescInputs : createEventStart(s, activeSession.id, tag, d)

\* @click="handleTagClick(tag)" :disabled="isLogging"
clickTagButton(s, tag) == ~isLogging /\ handleTagClick(s, tag)

\* Ctrl+Enter in the description field
handleKeydown(s) == handleTagClick(s, "Other")

\* createEvent has returned: the rest of the try block, then finally
handleTagClickLogged(s) ==
    /\ createEventAdd(s)
    /\ isLogging' = FALSE
    /\ UNCHANGED lastClickTime

\* createEvent has thrown: catch, then finally
handleTagClickFailed(s) ==
    /\ storageRejects(s)
    /\ isLogging' = FALSE
    /\ UNCHANGED lastClickTime

\* the component is shown for the active session
LoggerInit ==
    /\ dbSessions = [id \in {1} |-> EarlierSession]
    /\ dbEvents = << >>
    /\ sessions = <<Exposed(dbSessions, 1)>>
    /\ activeSession = Exposed(dbSessions, 1)
    /\ pointer = 1
    /\ clock = 1
    /\ nextSessionId = 2
    /\ nextEventId = 1
    /\ calls = [s \in Slots |-> IdleCall]
    /\ outcome = "none"
    /\ upgradeRuns = 0
    /\ view = NoView
    /\ PageLoaded

LoggerNext ==
    \/ \E s \in Slots, tag \in {"Combat", "Meal"} : clickTagButton(s, tag)
    \/ \E s \in Slots : handleKeydown(s)
    \/ \E s \in Slots : createEventQuery(s)
    \/ \E s \in Slots : createEventUpdate(s)
    \/ \E s \in Slots : handleTagClickLogged(s)
    \/ \E s \in Slots : handleTagClickFailed(s)
    \/ Tick

LoggerSpec == LoggerInit /\ [][LoggerNext]_vars

\* --------------------------------------------- SessionSelector and App mount
\* the page shows two stored sessions; the session restored at mount, if any,
\* is the active one
SelectInit ==
    /\ dbSessions = [id \in ListedSessions |-> EarlierSession]
    /\ dbEvents = << >>
    /\ sessions = << >>
    /\ \E p \in {NoId} \cup ListedSessions :
          pointer = p /\ activeSession = Get(dbSessions, p)
    /\ clock = 1
    /\ nextSessionId = 2
    /\ nextEventId = 1
    /\ calls = [s \in Slots |-> IdleCall]
    /\ outcome = "none"
    /\ upgradeRuns = 0
    /\ view = NoView
    /\ PageLoaded

\* handleSelectSession and handleDeleteSession, on any session the list has
\* shown, without waiting for one another
SelectNext ==
    \/ \E s \in Slots, sid \in ListedSessions : setActiveSessionStart(s, sid)
    \/ \E s \in Slots, sid \in ListedSessions : deleteSessionStart(s, sid)
    \/ \E s \in Slots : setActiveSessionGet(s)
    \/ \E s \in Slots : deleteSessionEvents(s)
    \/ \E s \in Slots : deleteSessionRecord(s)
    \/ \E s \in Slots : storageRejects(s) /\ UNCHANGED logger

SelectSpec == SelectInit /\ [][SelectNext]_vars

\* the same page from its load on: App calls loadSessions when it mounts,
\* with whatever pointer an earlier page has left
MountInit ==
    /\ dbSessions = [id \in ListedSessions |-> EarlierSession]
    /\ dbEvents = << >>
    /\ sessions = << >>
    /\ activeSession = NoSession
    /\ pointer \in {NoId} \cup ListedSessions
    /\ clock = 1
    /\ nextSessionId = 2
    /\ nextEventId = 1
    /\ calls = [s \in Slots |-> IdleCall]
    /\ outcome = "none"
    /\ upgradeRuns = 0
    /\ view = NoView
    /\ PageLoaded

MountNext ==
    \/ \E s \in Slots : loadSessionsStart(s)
    \/ \E s \in Slots : loadSessionsGet(s)
    \/ restart
    \/ SelectNext

MountSpec == MountInit /\ [][MountNext]_vars

\* ------------------------------------- a store written before endTimestamp
\* the page finds a session whose events were all written before the
\* endTimestamp field existed
LegacyInit ==
    /\ dbSessions = [id \in {1} |-> EarlierSession]
    /\ \E ids \in SUBSET EarlierEventIds :
          /\ ids # {}
          /\ dbEvents = [id \in ids |-> EarlierEvent(NoEnd)]
    /\ sessions = <<Exposed(dbSessions, 1)>>
    /\ activeSession = Exposed(dbSessions, 1)
    /\ pointer = 1
    /\ clock = 1
    /\ nextSessionId = 2
    /\ nextEventId = 1
    /\ calls = [s \in Slots |-> IdleCall]
    /\ outcome = "none"
    /\ upgradeRuns = 0
    /\ view = NoView
    /\ PageLoaded

\* events are logged, closed and deleted in that session, one call at a time
LegacyNext ==
    \/ /\ Quiescent
       /\ \/ \E s \in Slots, tag \in TagInputs, d \in DescInputs :
               createEventStart(s, 1, tag, d) /\ UNCHANGED logger
          \/ \E s \in Slots, e \in DOMAIN dbEvents : closeEventStart(s, e)
          \/ \E s \in Slots, e \in DOMAIN dbEvents : deleteEventStart(s, e)
    \/ \E s \in Slots : createEventQuery(s)
    \/ \E s \in Slots : createEventUpdate(s)
    \/ \E s \in Slots : createEventAdd(s) /\ UNCHANGED logger
    \/ \E s \in Slots : closeEventUpdate(s)
    \/ \E s \in Slots : deleteEventDelete(s)
    \/ \E s \in Slots : storageRejects(s) /\ UNCHANGED logger
    \/ Tick

LegacySpec == LegacyInit /\ [][LegacyNext]_vars

\* ================================================================ properties
IsOpen(db, e) == db[e].endTimestamp = NoEnd
OpenIn(db, sid) == {e \in DOMAIN db : db[e].sessionId = sid /\ IsOpen(db, e)}
StoredFor(db, sid) == {e \in DOMAIN db : db[e].sessionId = sid}
RanAlone(s) == calls[s].pre.alone

\* C1: with calls issued one at a time from an empty store (SeqSpec), every
\* session has at most one stored event without endTimestamp, in every state.
AtMostOneOpenPerSession ==
    \A sid \in SessionIds : Cardinality(OpenIn(dbEvents, sid)) <= 1

\* C1 witness: a session holds a closed event next to its one open event
OneOpenBesideClosed ==
    \E a, b \in DOMAIN dbEvents :
        /\ dbEvents[a].sessionId = dbEvents[b].sessionId
        /\ ~IsOpen(dbEvents, a)
        /\ IsOpen(dbEvents, b)

\* C2 (as claimed): when overlapping createEvent calls have all completed, the
\* session still has at most one event without endTimestamp.
OverlappingCreatesLeaveOneOpen ==
    Quiescent => \A sid \in SessionIds : Cardinality(OpenIn(dbEvents, sid)) < 2

\* C3 (as claimed): once all calls have completed, every stored event's
\* sessionId is the id of a stored session.
NoOrphanEvents ==
    Quiescent => \A e \in DOMAIN dbEvents : dbEvents[e].sessionId \in DOMAIN dbSessions

\* C4: a createEvent that runs alone in a session holding exactly one open
\* event E and completes leaves E.endTimestamp equal to the new event's
\* timestamp, and stores the new event without endTimestamp.
CreateClosesTheOpenEvent ==
    [][\A s \in Slots :
         (/\ createEventAdd(s)
          /\ RanAlone(s)
          /\ Cardinality(OpenIn(calls[s].pre.dbEvents, calls[s].sid)) = 1)
         => LET E == CHOOSE e \in OpenIn(calls[s].pre.dbEvents, calls[s].sid) : TRUE
                N == calls[s].eid
            IN /\ E \in DOMAIN dbEvents'
               /\ N \in DOMAIN dbEvents'
               /\ dbEvents'[E].endTimestamp = dbEvents'[N].timestamp
               /\ dbEvents'[N].endTimestamp = NoEnd]_vars

\* C4 witness: an event closed at the start instant of a later, open event of
\* its session
ClosedAtSuccessorStart ==
    \E E, N \in DOMAIN dbEvents :
        /\ Quiescent
        /\ E < N
        /\ dbEvents[E].sessionId = dbEvents[N].sessionId
        /\ dbEvents[E].timestamp < dbEvents[N].timestamp
        /\ dbEvents[E].endTimestamp = dbEvents[N].timestamp
        /\ IsOpen(dbEvents, N)

\* C5: an event that has an endTimestamp has one in every later state in
\* which it is still stored: no step takes an event from closed back to open.
ClosedStaysClosed ==
    [][\A e \in DOMAIN dbEvents \cap DOMAIN dbEvents' :
         ~IsOpen(dbEvents, e) => ~IsOpen(dbEvents', e)]_vars

\* C5 witness: a closeEvent running alone has written to an event that was
\* already closed when the call began
ClosedEventUnderWrite ==
    \E e \in DOMAIN dbEvents, s \in Slots :
        /\ calls[s].op = "closeEvent" /\ calls[s].eid = e
        /\ RanAlone(s)
        /\ e \in DOMAIN calls[s].pre.dbEvents
        /\ ~IsOpen(calls[s].pre.dbEvents, e)

\* C6 (as claimed): closeEvent on an event that is already closed leaves its
\* endTimestamp as it was.
RecloseIsNoOp ==
    [][\A s \in Slots :
         \A e \in DOMAIN dbEvents :
           (closeEventStart(s, e) /\ ~IsOpen(dbEvents, e))
           => dbEvents'[e].endTimestamp = dbEvents[e].endTimestamp]_vars

\* C7: when a deleteSession(id) that ran alone completes, no stored event has
\* sessionId = id and no session with that id is stored.
DeleteSessionCascades ==
    [][\A s \in Slots :
         (deleteSessionRecord(s) /\ RanAlone(s))
         => /\ calls[s].sid \notin DOMAIN dbSessions'
            /\ StoredFor(dbEvents', calls[s].sid) = {}]_vars

\* C7 witness: a session still listed by the not-yet-refreshed `sessions`
\* collection is no longer stored, and none of the events created is stored
\* under its id
SessionAndEventsGone ==
    /\ Quiescent
    /\ Len(sessions) = 1
    /\ sessions[1].id \notin DOMAIN dbSessions
    /\ nextEventId > 1
    /\ StoredFor(dbEvents, sessions[1].id) = {}

\* C8 (as claimed): when the insert of createEvent is rejected, the stored
\* events are those before the call (the open events are still open).
FailedCreateLeavesEvents ==
    [][\A s \in Slots :
         (/\ storageRejects(s)
          /\ calls[s].op = "createEvent" /\ NextRequest(calls[s]) = "add"
          /\ RanAlone(s))
         => dbEvents' = calls[s].pre.dbEvents]_vars

\* C9 (as claimed): when the deletion of the session record is rejected, the
\* session's events are still stored and sessions, events, activeSession and
\* the durable pointer are those before the call.
FailedDeleteLeavesStore ==
    [][\A s \in Slots :
         (/\ storageRejects(s)
          /\ NextRequest(calls[s]) = "deleteSession"
          /\ RanAlone(s))
         => /\ dbEvents' = calls[s].pre.dbEvents
            /\ dbSessions' = calls[s].pre.dbSessions
            /\ activeSession' = calls[s].pre.activeSession
            /\ pointer' = calls[s].pre.pointer]_vars

\* C10 (as claimed): every session the store exposes, in `sessions` and in
\* `activeSession`, has a type in SESSION_TYPES.
ExposedTypesValid ==
    /\ \A i \in 1..Len(sessions) : sessions[i].type \in SESSION_TYPES
    /\ activeSession # NoSession => activeSession.type \in SESSION_TYPES

\* C11 (as claimed): createSession(name, type) with a valid name and a type in
\* SESSION_TYPES stores a new session whose name is the trimmed name and whose
\* type is the given type.
CreateSessionStoresGivenType ==
    [][\A s \in Slots, n \in NameInputs, t \in SESSION_TYPES :
         (createSessionStart(s, n, t) /\ InFlight(calls'[s]))
         => /\ nextSessionId \in DOMAIN dbSessions'
            /\ dbSessions'[nextSessionId].name = Trim(n)
            /\ dbSessions'[nextSessionId].type = t]_vars

\* C12: createSession with a name that is empty, only whitespace, or longer
\* than 100 characters after trimming fails with an error, starts no request
\* and leaves the stored sessions unchanged.
InvalidNameIsRefused ==
    [][\A s \in Slots, n \in NameInputs, t \in SESSION_TYPES :
         (/\ createSessionStart(s, n, t)
          /\ (Length(Trim(n)) = 0 \/ Length(Trim(n)) > MaxNameLen))
         => /\ outcome' = "error"
            /\ dbSessions' = dbSessions
            /\ calls' = calls]_vars

\* C12 witness: a call has just thrown while a session is stored, no call is
\* in flight and a session id is still to be drawn: the state a refused
\* createSession leaves
RefusedBesideStoredSession ==
    /\ outcome = "error"
    /\ Quiescent
    /\ dbSessions # << >>
    /\ nextSessionId <= MaxSessions + 1

\* C13 (as claimed): an event persisted before the endTimestamp field existed
\* is never reported as open or 'Ongoing': isEventOpen answers false for it,
\* and the event card and the markdown export show the dash for it.
LegacyEventNeverOngoing ==
    view.event.legacy =>
        /\ view.fn = "isEventOpen" => view.out = FALSE
        /\ view.fn = "EventCard" => view.out = Dash
        /\ view.fn = "formatEventsAsMarkdownTable" => view.out = Dash

EndNotBeforeStart ==
    \A e \in DOMAIN dbEvents :
        ~IsOpen(dbEvents, e) => dbEvents[e].endTimestamp >= dbEvents[e].timestamp

\* C14 witness: an event created at the later instant has been closed while
\* a createEvent that read the clock at the earlier instant is still in flight
LateEventClosedBesideEarlyCreate ==
    \E e \in DOMAIN dbEvents, s \in Slots :
        /\ dbEvents[e].timestamp = MaxClock
        /\ ~IsOpen(dbEvents, e)
        /\ calls[s].op = "createEvent"
        /\ calls[s].now < MaxClock
        /\ calls[s].sid = dbEvents[e].sessionId

\* C15 (as claimed): when deleteSession(id) completes, neither the durable
\* pointer nor activeSession refers to id.
DeleteSessionClearsPointer ==
    [][\A s \in Slots :
         deleteSessionRecord(s)
         => /\ pointer' # calls[s].sid
            /\ activeSession'.id # calls[s].sid]_vars

\* C16: a loadSessions that runs alone from a null activeSession sets
\* activeSession to the stored session whose id is the pointer when there is
\* one, and otherwise returns without error and leaves activeSession null.
LoadSessionsRestoresActive ==
    [][\A s \in Slots :
         /\ (loadSessionsStart(s) /\ pointer = NoId /\ activeSession = NoSession)
            => (outcome' = "ok" /\ activeSession' = NoSession /\ calls' = calls)
         /\ (loadSessionsGet(s) /\ RanAlone(s)
               /\ calls[s].pre.activeSession = NoSession)
            => /\ outcome' = "ok"
               /\ activeSession' =
                     IF calls[s].pre.pointer \in DOMAIN calls[s].pre.dbSessions
                     THEN Exposed(calls[s].pre.dbSessions, calls[s].pre.pointer)
                     ELSE NoSession]_vars

\* C16 witness: after a setActiveSession and a restart, a loadSessions running
\* alone from a null activeSession has been answered with the stored session
\* the pointer names
LoadFoundPointedSession ==
    \E s \in Slots :
        /\ calls[s].op = "loadSessions"
        /\ RanAlone(s)
        /\ calls[s].pre.activeSession = NoSession
        /\ calls[s].got # NoSession
        /\ calls[s].got.id = pointer

\* C17: a setActiveSession(id) that runs alone fails with an error and leaves
\* activeSession and the pointer as they were when no session is stored under
\* id; otherwise it sets activeSession to that session and the pointer to id.
SetActiveSessionVerifies ==
    [][\A s \in Slots :
         (setActiveSessionGet(s) /\ RanAlone(s))
         => LET c == calls[s] IN
            IF c.sid \in DOMAIN c.pre.dbSessions
            THEN /\ outcome' = "ok"
                 /\ activeSession' = Exposed(c.pre.dbSessions, c.sid)
                 /\ pointer' = c.sid
            ELSE /\ outcome' = "error"
                 /\ activeSession' = c.pre.activeSession
                 /\ pointer' = c.pre.pointer]_vars

\* C17 witness: a setActiveSession running alone for an id under which nothing
\* is stored has been answered while another session is active
SetActiveMissingBesideActive ==
    \E s \in Slots :
        /\ calls[s].op = "setActiveSession"
        /\ RanAlone(s)
        /\ calls[s].got = NoSession
        /\ activeSession # NoSession
        /\ pointer = activeSession.id

\* C18: while a createEvent runs alone, and when it has issued its last
\* request, every event that had an endTimestamp when the call began is still
\* stored with that same endTimestamp.
ClosedEventsNotRetargeted ==
    \A s \in Slots :
        (calls[s].op = "createEvent" /\ RanAlone(s))
        => \A e \in DOMAIN calls[s].pre.dbEvents :
              ~IsOpen(calls[s].pre.dbEvents, e)
              => /\ e \in DOMAIN dbEvents
                 /\ dbEvents[e].endTimestamp = calls[s].pre.dbEvents[e].endTimestamp

\* C18 witness: a createEvent running alone has issued its add at an instant
\* later than the endTimestamp of an event of its session closed beforehand
AddIssuedBesideEarlierClosed ==
    \E s \in Slots, e \in DOMAIN dbEvents :
        /\ calls[s].op = "createEvent" /\ calls[s].pc = "add"
        /\ RanAlone(s)
        /\ e \in DOMAIN calls[s].pre.dbEvents
        /\ dbEvents[e].sessionId = calls[s].sid
        /\ ~IsOpen(calls[s].pre.dbEvents, e)
        /\ calls[s].pre.dbEvents[e].endTimestamp < calls[s].now

\* C19: deleteAllEvents(s) removes every stored event whose sessionId is s and
\* leaves every other event and every session record as it was.
DeleteAllEventsFrame ==
    [][\A s \in Slots, sid \in SessionIds \cup {UnknownId} :
         deleteAllEventsStart(s, sid)
         => /\ StoredFor(dbEvents', sid) = {}
            /\ \A e \in DOMAIN dbEvents :
                  dbEvents[e].sessionId # sid
                  => e \in DOMAIN dbEvents' /\ dbEvents'[e] = dbEvents[e]
            /\ DOMAIN dbEvents' \subseteq DOMAIN dbEvents
            /\ dbSessions' = dbSessions]_vars

\* C19 witness: a deleteAllEvents for a stored session is in flight, that
\* session has no event left, and an event stored under another id before the
\* call is still stored
EventsOfOneSessionGone ==
    \E s \in Slots, e \in DOMAIN dbEvents :
        /\ calls[s].op = "deleteAllEvents"
        /\ RanAlone(s)
        /\ calls[s].sid \in DOMAIN dbSessions
        /\ StoredFor(calls[s].pre.dbEvents, calls[s].sid) # {}
        /\ StoredFor(dbEvents, calls[s].sid) = {}
        /\ e \in DOMAIN calls[s].pre.dbEvents
        /\ dbEvents[e].sessionId # calls[s].sid

\* C21: opening a store persisted at version 1 loses nothing: every session
\* and event record is still there with its prior field values, except that a
\* session without a type has received 'RPG'; a session with a type keeps it.
OpenOfV1KeepsRecordsAndTypes ==
    [][(open /\ verno = 1) =>
         /\ dbEvents' = dbEvents
         /\ DOMAIN dbSessions' = DOMAIN dbSessions
         /\ \A id \in DOMAIN dbSessions :
               dbSessions'[id] = IF dbSessions[id].type = NoType
                                 THEN [dbSessions[id] EXCEPT !.type = "RPG"]
                                 ELSE dbSessions[id]]_vars

\* C22: versions 1, 2 and 3 are declared and 3 is the current one; opening a
\* store at version g < 3 takes it through g+1..3, each once and in increasing
\* order, a store at 3 runs no step, and the stored version never decreases.
OpenRunsEveryStepAbove ==
    [][(open /\ verno > 0) =>
         /\ verno' >= verno
         /\ verno' = 3
         /\ upgraded' = [i \in 1..(3 - verno) |-> verno + i]]_vars

\* the sessions collection holds exactly the stored sessions, newest first
SessionsShowTheStore ==
    /\ Len(sessions) = Cardinality(DOMAIN dbSessions)
    /\ \A i \in 1..Len(sessions) :
          /\ sessions[i].id \in DOMAIN dbSessions
          /\ sessions[i] = Exposed(dbSessions, sessions[i].id)
    /\ \A i, j \in 1..Len(sessions) :
          i < j => /\ sessions[i].id # sessions[j].id
                   /\ sessions[i].createdAt >= sessions[j].createdAt

\* C23: after a committed createSession or deleteSession, and without any
\* refresh, the sessions collection eventually holds exactly the stored
\* sessions, newest createdAt first.
SessionsEventuallyShowTheStore == (~SessionsShowTheStore) ~> SessionsShowTheStore

\* C23 witness: a session created after the stored one is listed before it
NewSessionListedFirst ==
    /\ Len(sessions) = 2
    /\ sessions[1].createdAt > sessions[2].createdAt
    /\ SessionsShowTheStore

NormalizeTotalAndIdempotent ==
    /\ view.fn \in {"normalizeSessionType", "normalizeSessionType again"} =>
          view.out \in {Str("RPG"), Str("Boardgame")}
    /\ view.fn = "normalizeSessionType again" => view.out = view.once

\* C25 witness: a string outside the set has been normalized twice
OutsiderNormalizedTwice ==
    /\ view.fn = "normalizeSessionType again"
    /\ view.arg = Str("Campaign")
    /\ view.out = Str("RPG")

\* the events collection holds exactly the stored events of sid, newest first
EventsShow(sid) ==
    /\ Len(events) = Cardinality(EventsOf(dbEvents, sid))
    /\ \A i \in 1..Len(events) :
          /\ events[i].id \in EventsOf(dbEvents, sid)
          /\ events[i] = ExposedEvent(dbEvents, events[i].id)
    /\ \A i, j \in 1..Len(events) :
          i < j => /\ events[i].id # events[j].id
                   /\ events[i].timestamp >= events[j].timestamp

EmissionsDelivered ==
    \A i \in 1..Len(subscriptions) :
        /\ subscriptions[i].delivered
        /\ subscriptions[i].result = QueryEvents(subscriptions[i].sid)

\* C26 (as claimed): after loadEvents(s2) has followed loadEvents(s1) with
\* s1 # s2 and every subscription has delivered what its query gives, the
\* events collection holds exactly the stored events of s2, newest first,
\* whatever has been written to the events of s1 since.
LastLoadedSessionShown ==
    (/\ Len(subscriptions) = 2
     /\ subscriptions[1].sid # subscriptions[2].sid
     /\ EmissionsDelivered) => EventsShow(subscriptions[2].sid)

\* C27 (as claimed): a createEvent started from the EventLogger, by a tag
\* button or by Ctrl+Enter, never begins while a createEvent started earlier
\* from it is still awaiting storage.
OneLoggerCreateAtATime ==
    [][\A s \in Slots :
         (handleKeydown(s) \/ \E tag \in {"Combat", "Meal"} : clickTagButton(s, tag))
           => Quiescent]_vars

PointerNamesActiveSession ==
    (Quiescent /\ activeSession # NoSession) => pointer = activeSession.id

\* C30 (as claimed): in a store whose events were written before the
\* endTimestamp field existed, a createEvent in their session changes none of
\* those records: no endTimestamp is written to them.
CreateLeavesLegacyEvents ==
    [][\A s \in Slots :
         (createEventQuery(s) \/ createEventUpdate(s)) =>
            \A e \in EarlierEventIds \cap DOMAIN dbEvents :
                /\ e \in DOMAIN dbEvents'
                /\ dbEvents'[e] = dbEvents[e]]_vars

InvalidCreateEventIsRefused ==
    [][\A s \in Slots, sid \in SessionIds \cup {NoId, UnknownId},
          tag \in TagInputs, d \in DescInputs :
         (/\ createEventStart(s, sid, tag, d)
          /\ (sid = NoId \/ tag \notin EVENT_TAGS \/ Length(d) > MaxDescLen))
         => /\ outcome' = "error"
            /\ dbEvents' = dbEvents
            /\ nextEventId' = nextEventId
            /\ calls' = calls]_vars

\* C32 witness: a call has just thrown while the session holds an open event,
\* no call is in flight and an event id is still to be drawn: the state a
\* refused createEvent leaves
RefusedBesideOpenEvent ==
    /\ outcome = "error"
    /\ Quiescent
    /\ nextEventId <= MaxEvents
    /\ \E e \in DOMAIN dbEvents : IsOpen(dbEvents, e) /\ dbEvents[e].sessionId = 1

\* C33: while a deleteSession(id) runs with no other call in flight, there is
\* no state in which the session record is absent and an event with
\* sessionId id is still stored: the events go first.
EventsGoBeforeTheSession ==
    \A s \in Slots :
        (/\ calls[s].op = "deleteSession"
         /\ InFlight(calls[s])
         /\ RanAlone(s)
         /\ calls[s].sid \notin DOMAIN dbSessions)
        => StoredFor(dbEvents, calls[s].sid) = {}

\* C33 witness: the record of a session that held events is being deleted
SessionRecordGoingAfterEvents ==
    \E s \in Slots :
        /\ calls[s].op = "deleteSession" /\ calls[s].pc = "deleteSession"
        /\ RanAlone(s)
        /\ calls[s].sid \in DOMAIN calls[s].pre.dbSessions
        /\ StoredFor(calls[s].pre.dbEvents, calls[s].sid) # {}
        /\ calls[s].sid \notin DOMAIN dbSessions

\* C34: a deleted event never reappears: a step stores an event under a new
\* key only through the add of a createEvent, under the next id, whatever
\* closeEvent or auto-close update is pending for a deleted id; a closeEvent
\* whose id matches no stored event resolves and stores nothing.
DeletedEventStaysDeleted ==
    [][/\ \A e \in DOMAIN dbEvents' \ DOMAIN dbEvents :
             e = nextEventId /\ nextEventId' = nextEventId + 1
       /\ \A s \in Slots, e \in KnownEventArgs :
             (closeEventStart(s, e) /\ e \notin DOMAIN dbEvents)
             => dbEvents' = dbEvents
       /\ \A s \in Slots :
             (/\ closeEventUpdate(s)
              /\ RanAlone(s)
              /\ calls[s].eid \notin DOMAIN calls[s].pre.dbEvents)
             => outcome' = "ok" /\ dbEvents' = calls[s].pre.dbEvents]_vars

\* C34 witness: the auto-close update of a createEvent was issued for an
\* event its query returned and a later deletion removed
AutoCloseOfDeletedEvent ==
    \E s \in Slots :
        /\ calls[s].op = "createEvent" /\ calls[s].pc = "update"
        /\ Head(calls[s].open) \notin DOMAIN dbEvents
        /\ Head(calls[s].open) < nextEventId

\* C35: no step changes the sessionId, tag, timestamp or description of an
\* event that stays stored under its id: only endTimestamp is written.
OnlyEndTimestampIsWritten ==
    [][\A e \in DOMAIN dbEvents \cap DOMAIN dbEvents' :
          /\ dbEvents'[e].sessionId = dbEvents[e].sessionId
          /\ dbEvents'[e].tag = dbEvents[e].tag
          /\ dbEvents'[e].timestamp = dbEvents[e].timestamp
          /\ dbEvents'[e].description = dbEvents[e].description]_vars

\* C35 witness: an event was closed at a later instant than it started, and
\* another was stored after it
ClosedLaterThanStarted ==
    \E e \in DOMAIN dbEvents :
        /\ dbEvents[e].endTimestamp # NoEnd
        /\ dbEvents[e].timestamp < dbEvents[e].endTimestamp
        /\ \E n \in DOMAIN dbEvents : n > e

\* C36: a createEvent(s, tag, description) that ran alone leaves every event
\* whose sessionId differs from s, and every session record, as they were
\* when it was called.
CreateLeavesOtherSessionsAlone ==
    [][\A s \in Slots :
          (createEventAdd(s) /\ RanAlone(s))
          => /\ dbSessions' = calls[s].pre.dbSessions
             /\ \A e \in DOMAIN calls[s].pre.dbEvents :
                   calls[s].pre.dbEvents[e].sessionId # calls[s].sid
                   => /\ e \in DOMAIN dbEvents'
                      /\ dbEvents'[e] = calls[s].pre.dbEvents[e]]_vars

\* C36 witness: an event was added to a stored session while an open event
\* of another session id was stored
AddedBesideOtherSessionsOpenEvent ==
    \E s \in Slots :
        /\ calls[s].op = "createEvent" /\ calls[s].pc = "add"
        /\ RanAlone(s)
        /\ calls[s].sid \in DOMAIN dbSessions
        /\ \E e \in DOMAIN calls[s].pre.dbEvents :
              /\ calls[s].pre.dbEvents[e].sessionId # calls[s].sid
              /\ IsOpen(calls[s].pre.dbEvents, e)

\* C37: a deleteEvent(id) that ran alone resolves having removed exactly the
\* stored event with that id, open or closed: every other event is stored as
\* it was (none reopened) and every session record is unchanged; when no
\* stored event has that id nothing changes.
DeleteEventRemovesExactlyOne ==
    [][\A s \in Slots :
          (deleteEventDelete(s) /\ RanAlone(s))
          => /\ outcome' = "ok"
             /\ DOMAIN dbEvents' = DOMAIN calls[s].pre.dbEvents \ {calls[s].eid}
             /\ \A e \in DOMAIN dbEvents' : dbEvents'[e] = calls[s].pre.dbEvents[e]
             /\ dbSessions' = calls[s].pre.dbSessions]_vars

\* C37 witness: a stored event is being deleted beside a closed one
DeletingBesideClosedEvent ==
    \E s \in Slots :
        /\ calls[s].op = "deleteEvent" /\ calls[s].pc = "delete"
        /\ RanAlone(s)
        /\ calls[s].eid \in DOMAIN calls[s].pre.dbEvents
        /\ \E e \in DOMAIN dbEvents : ~IsOpen(dbEvents, e)

\* C38: a deleteSession(id) that ran alone for an id with no stored session
\* resolves and leaves the session records, the events, activeSession and the
\* pointer as they were when it was called.
DeleteOfAbsentSessionChangesNothing ==
    [][\A s \in Slots :
          (/\ deleteSessionRecord(s)
           /\ RanAlone(s)
           /\ calls[s].sid \notin DOMAIN calls[s].pre.dbSessions)
          => /\ outcome' = "ok"
             /\ dbSessions' = calls[s].pre.dbSessions
             /\ dbEvents' = calls[s].pre.dbEvents
             /\ activeSession' = calls[s].pre.activeSession
             /\ pointer' = calls[s].pre.pointer]_vars
====
